---------------------------- MODULE Spec2Model ----------------------------
(***************************************************************************)
(* EncryptBckDocs: a local-folder to Google Drive synchroniser.            *)
(*                                                                         *)
(* The model follows src/EncryptBckDocs.go.  That file holds three         *)
(* successive versions of the program; the first one (lines 1-513, several *)
(* watched folders, sweep, add-path command) is the one modelled by Spec.  *)
(* The event handler of the second one (lines 764-811, one watched folder) *)
(* is modelled by SpecSingle.                                              *)
(*                                                                         *)
(* Strings are sequences of one-character strings, so that the code's      *)
(* index arithmetic (strings.LastIndex, strings.Index, slicing) and the    *)
(* JSON escaping are computed as the code computes them.                   *)
(***************************************************************************)
EXTENDS Integers, Sequences, FiniteSets, TLC

(***************************************************************************)
(* Bounds of the model.                                                    *)
(***************************************************************************)
MaxEvents == 2       \* notifier deliveries (events and errors) per run
MaxStrLen == 2       \* length of the strings drawn in SpecJson

(***************************************************************************)
(* Small helpers.                                                          *)
(***************************************************************************)
SetMax(S) == CHOOSE x \in S : \A y \in S : y <= x

SetMin(S) == CHOOSE x \in S : \A y \in S : x <= y

Sep == "/"

(***************************************************************************)
(* String constants of the program.                                        *)
(***************************************************************************)
configFileName == <<"c","o","n","f","i","g",".","j","s","o","n">>

clientSecretFileName ==
    <<"c","l","i","e","n","t","_","s","e","c","r","e","t",".","j","s","o","n">>

sourceFileName ==
    <<"E","n","c","r","y","p","t","B","c","k","D","o","c","s",".","g","o">>

binaryFileName == <<"E","n","c","r","y","p","t","B","c","k","D","o","c","s">>

appFiles ==
    <<configFileName, clientSecretFileName, sourceFileName, binaryFileName>>

DefaultFolderName == <<"E","n","c","r","y","p","t","B","c","k","D","o","c">>

(***************************************************************************)
(* strings.LastIndex / strings.Index: 0-based index of the last / first    *)
(* occurrence of sub in s, -1 when there is none.                          *)
(***************************************************************************)
Occurrences(s, sub) ==
    {i \in 0..(Len(s) - Len(sub)) : SubSeq(s, i + 1, i + Len(sub)) = sub}

LastIndex(s, sub) ==
    IF Occurrences(s, sub) = {} THEN -1 ELSE SetMax(Occurrences(s, sub))

Index(s, sub) ==
    IF Occurrences(s, sub) = {} THEN -1 ELSE SetMin(Occurrences(s, sub))

(***************************************************************************)
(* isNotAppFile: false as soon as, for one reserved name, the last         *)
(* occurrence of the name sits at len(fileName) - len(name).               *)
(***************************************************************************)
isNotAppFile(fileName) ==
    ~ \E k \in 1..Len(appFiles) :
        Len(fileName) - Len(appFiles[k]) = LastIndex(fileName, appFiles[k])

(***************************************************************************)
(* isNotHiddenFile: despite its name, true when the path holds "/.".       *)
(***************************************************************************)
isNotHiddenFile_Never(fileName) == FALSE

isNotHiddenFile(fileName) == Index(fileName, <<"/", ".">>) # -1

(***************************************************************************)
(* path/filepath: Clean, Dir, Base, Abs (Unix, no volume names).           *)
(***************************************************************************)
RECURSIVE SplitSep(_)
SplitSep(s) ==
    IF Index(s, <<Sep>>) = -1
    THEN <<s>>
    ELSE <<SubSeq(s, 1, Index(s, <<Sep>>))>>
         \o SplitSep(SubSeq(s, Index(s, <<Sep>>) + 2, Len(s)))

RECURSIVE CleanSegs(_, _, _)
CleanSegs(segs, stack, rooted) ==
    IF segs = <<>> THEN stack
    ELSE LET h == Head(segs) IN
         IF h = <<>> \/ h = <<".">>
         THEN CleanSegs(Tail(segs), stack, rooted)
         ELSE IF h = <<".", ".">>
         THEN IF stack # <<>> /\ stack[Len(stack)] # <<".", ".">>
              THEN CleanSegs(Tail(segs), SubSeq(stack, 1, Len(stack) - 1), rooted)
              ELSE IF rooted
                   THEN CleanSegs(Tail(segs), stack, rooted)
                   ELSE CleanSegs(Tail(segs), Append(stack, h), rooted)
         ELSE CleanSegs(Tail(segs), Append(stack, h), rooted)

RECURSIVE JoinSep(_)
JoinSep(segs) ==
    IF segs = <<>> THEN <<>>
    ELSE IF Len(segs) = 1 THEN Head(segs)
    ELSE Head(segs) \o <<Sep>> \o JoinSep(Tail(segs))

IsAbs(path) == path # <<>> /\ path[1] = Sep

Clean(path) ==
    LET rooted == IsAbs(path)
        body == JoinSep(CleanSegs(SplitSep(path), <<>>, rooted))
    IN  IF rooted THEN <<Sep>> \o body
        ELSE IF body = <<>> THEN <<".">> ELSE body

Dir(path) == Clean(SubSeq(path, 1, LastIndex(path, <<Sep>>) + 1))

RECURSIVE StripTrailingSep(_)
StripTrailingSep(s) ==
    IF s # <<>> /\ s[Len(s)] = Sep
    THEN StripTrailingSep(SubSeq(s, 1, Len(s) - 1))
    ELSE s

Base(path) ==
    IF path = <<>> THEN <<".">>
    ELSE LET p == StripTrailingSep(path)
             q == SubSeq(p, LastIndex(p, <<Sep>>) + 2, Len(p))
         IN  IF q = <<>> THEN <<Sep>> ELSE q

Cwd == <<"/", "w">>

Abs(path) == IF IsAbs(path) THEN Clean(path) ELSE Clean(Cwd \o <<Sep>> \o path)

(***************************************************************************)
(* encoding/json as used by saveConfigJSONFile and loadConfig.  A document *)
(* is the object json.Marshal writes for appConfig: one member per tagged  *)
(* field, each string value written as JSON text (quotes and escapes), a   *)
(* nil slice written as null.                                              *)
(***************************************************************************)
Hex4(c) ==
    CASE c = "<" -> <<"0","0","3","c">>
      [] c = ">" -> <<"0","0","3","e">>
      [] c = "&" -> <<"0","0","2","6">>

EncodeChar(c) ==
    IF c = "\"" THEN <<"\\", "\"">>
    ELSE IF c = "\\" THEN <<"\\", "\\">>
    ELSE IF c \in {"<", ">", "&"} THEN <<"\\", "u">> \o Hex4(c)
    ELSE <<c>>

RECURSIVE EncodeChars(_)
EncodeChars(s) ==
    IF s = <<>> THEN <<>> ELSE EncodeChar(Head(s)) \o EncodeChars(Tail(s))

EncodeString_NoEscape(s) == <<"\"">> \o s \o <<"\"">>

EncodeString(s) == <<"\"">> \o EncodeChars(s) \o <<"\"">>

UnHex4(h) ==
    CASE h = <<"0","0","3","c">> -> "<"
      [] h = <<"0","0","3","e">> -> ">"
      [] h = <<"0","0","2","6">> -> "&"
      [] OTHER -> "?"

\* The text between the quotes, escapes undone; stops at the closing quote.
RECURSIVE DecodeChars(_)
DecodeChars(t) ==
    IF t = <<>> \/ Head(t) = "\"" THEN <<>>
    ELSE IF Head(t) = "\\" /\ Len(t) >= 2
    THEN IF t[2] = "u"
         THEN <<UnHex4(SubSeq(t, 3, 6))>> \o DecodeChars(SubSeq(t, 7, Len(t)))
         ELSE <<t[2]>> \o DecodeChars(SubSeq(t, 3, Len(t)))
    ELSE <<Head(t)>> \o DecodeChars(Tail(t))

DecodeString(t) == DecodeChars(Tail(t))

NullJSON == <<"n","u","l","l">>

ZeroConfig == [FolderName |-> <<>>, LastUpdate |-> <<>>, FolderToWatch |-> <<>>]

\* json.Marshal(configApp)
Marshal(config) ==
    [folderName |-> EncodeString(config.FolderName),
     lastUpdate |-> EncodeString(config.LastUpdate),
     folderToWatch |->
        IF config.FolderToWatch = <<>>
        THEN <<NullJSON>>
        ELSE [i \in 1..Len(config.FolderToWatch) |->
                 EncodeString(config.FolderToWatch[i])]]

\* jsonParser.Decode(&config) on a zero appConfig
Decode(doc) ==
    [FolderName |-> DecodeString(doc.folderName),
     LastUpdate |-> DecodeString(doc.lastUpdate),
     FolderToWatch |->
        IF doc.folderToWatch = <<NullJSON>>
        THEN <<>>
        ELSE [i \in 1..Len(doc.folderToWatch) |->
                 DecodeString(doc.folderToWatch[i])]]

\* The config file: <<>> when there is none, <<doc>> when it holds doc.
loadConfig(file) ==
    IF file = <<>>
    THEN [config |-> ZeroConfig, err |-> TRUE]
    ELSE [config |-> Decode(file[1]), err |-> FALSE]

saveConfigJSONFile(config, file) == <<Marshal(config)>>

Digits == <<"0","1","2","3","4","5","6","7","8","9">>

\* time.Now().String() at the n-th reading of the clock
TimeString(n) == <<"t", Digits[(n % 10) + 1]>>

(***************************************************************************)
(* The environment: the local directories, the user's answers, the folders *)
(* the Drive account holds when the program starts.                        *)
(***************************************************************************)
WatchW == Cwd

WatchD == <<"/","w","/","d">>

\* ioutil.ReadDir(dir): the entries sorted by name
DirEntries(dir) ==
    IF dir = WatchW
    THEN << [name |-> <<".","h">>, isDir |-> FALSE],
            [name |-> <<"a">>, isDir |-> FALSE],
            [name |-> configFileName, isDir |-> FALSE],
            [name |-> <<"d">>, isDir |-> TRUE] >>
    ELSE IF dir = WatchD
    THEN << [name |-> <<"b">>, isDir |-> FALSE],
            [name |-> <<"f","i","l","e",".","t","x","t">>, isDir |-> FALSE] >>
    ELSE <<>>

\* what the user may type at a "Path to watch" prompt
PathInputs == { <<>>, <<".">>, <<"d">>, <<"/","w","/","d","/">> }

NameD == <<"D">>

\* what the user may type at the "Name for the folder" prompt
NameInputs == { <<>>, NameD }

MkFolder(id, name) == [id |-> id, name |-> name]

InitialFolders ==
    { <<>>,
      << MkFolder(1, NameD) >>,
      << MkFolder(1, NameD), MkFolder(2, NameD) >> }

InitialConfigFiles ==
    { <<>>,
      << Marshal([FolderName |-> NameD, LastUpdate |-> TimeString(0),
                  FolderToWatch |-> <<WatchW>>]) >> }

OpWrite == "WRITE"

OpCreate == "CREATE"

\* the fsnotify.Op values the notifier delivers here
EventOps == { {OpWrite}, {OpCreate} }

VARIABLES
    interactive,   \* main was started without argument: options come from the menu
    pc,            \* where the main task is
    configApp,     \* the appConfig global
    configFile,    \* config.json
    now,           \* readings of the clock so far
    folders,       \* Drive: the folders, in listing order
    files,         \* Drive: the files, in listing order
    nextId,        \* Drive: the next id it hands out
    parentFolder,  \* executeApp's folderFile: <<>> or <<folder>>
    si,            \* sweep: index of the watched path in hand
    listed,        \* sweep: ReadDir of that path has returned its entries
    entries,       \* sweep: the entries of that path still to visit
    registered,    \* runWatcher: watched paths added to the watcher so far
    events,        \* watcher.Events: delivered, not yet received
    errors,        \* watcher.Errors: delivered, not yet received
    delivered,     \* notifier deliveries so far
    rpc,           \* processUpload: "idle", or the call it is about to make
    rc,            \* processUpload: its arguments and locals
    pu,            \* history: what the processUpload in hand, or the last one, did
    prev,          \* history: the processUpload before it
    run,           \* history: what this execute did
    received,      \* history: the last event the goroutine received
    lastAct        \* history: the last menu command and what it did

cfgVars == <<configApp, configFile>>

driveVars == <<folders, files, nextId>>

sweepVars == <<si, listed, entries>>

watchVars == <<registered, events, errors, delivered, received>>

puVars == <<rpc, rc, pu, prev>>

vars == <<interactive, pc, configApp, configFile, now, folders, files, nextId,
          parentFolder, si, listed, entries, registered, events, errors,
          delivered, rpc, rc, pu, prev, run, received, lastAct>>

NoRC == [path |-> <<>>, name |-> <<>>, by |-> "none", found |-> <<>>]

NoPU == [path |-> <<>>, name |-> <<>>, by |-> "none", parent |-> 0,
         existed |-> FALSE, opened |-> "no", query |-> "no",
         creates |-> 0, updates |-> 0, target |-> 0, outcome |-> "none",
         cfgBefore |-> ZeroConfig, fileBefore |-> <<>>]

NoPrev == [path |-> <<>>, parent |-> 0]

NoRun == [list |-> "none", matches |-> 0, mkdir |-> 0, lastMatch |-> 0,
          skipped |-> {}, errs |-> 0, addErr |-> FALSE]

NoAct == [op |-> "none", saved |-> FALSE, prompted |-> FALSE,
          before |-> ZeroConfig, fileBefore |-> <<>>, name |-> <<>>,
          path |-> <<>>, loadErr |-> FALSE]

NoEvent == [name |-> <<>>, op |-> {}]

Init ==
    /\ interactive \in BOOLEAN
    /\ pc = "menu"
    /\ configFile \in InitialConfigFiles
    /\ configApp = loadConfig(configFile).config
    /\ now = 1
    /\ folders \in InitialFolders
    /\ files = <<>>
    /\ nextId = 3
    /\ parentFolder = <<>>
    /\ si = 1 /\ listed = FALSE /\ entries = <<>>
    /\ registered = 0 /\ events = <<>> /\ errors = 0 /\ delivered = 0
    /\ received = NoEvent
    /\ rpc = "idle" /\ rc = NoRC /\ pu = NoPU /\ prev = NoPrev
    /\ run = NoRun
    /\ lastAct = [NoAct EXCEPT !.op = "load",
                               !.loadErr = loadConfig(configFile).err]

(***************************************************************************)
(* The menu commands (runOption).                                          *)
(***************************************************************************)
\* where runOption goes when a command returns
AfterOption == IF interactive THEN "menu" ELSE "exit"

createConfig_NoDefault(inputFolderName, file) ==
    LET config == [FolderName |-> inputFolderName, LastUpdate |-> <<>>,
                   FolderToWatch |-> <<>>]
    IN  [config |-> config, file |-> saveConfigJSONFile(config, file)]

createConfig(inputFolderName, file) ==
    LET folderName == IF inputFolderName # <<>> THEN inputFolderName
                      ELSE DefaultFolderName
        config == [FolderName |-> folderName, LastUpdate |-> <<>>,
                   FolderToWatch |-> <<>>]
    IN  [config |-> config, file |-> saveConfigJSONFile(config, file)]

configFolderToWatch(config, file, input) ==
    IF Len(config.FolderToWatch) = 0 \/ config.FolderToWatch[1] = <<>>
    THEN LET folderToWatch == IF input = <<>> THEN <<".">> ELSE input
             config2 == [config EXCEPT
                           !.FolderToWatch = <<Abs(Dir(folderToWatch))>>]
         IN  [config |-> config2, file |-> saveConfigJSONFile(config2, file),
              prompted |-> TRUE]
    ELSE [config |-> config, file |-> file, prompted |-> FALSE]

\* the path addFolderToWatch compares and stores
AddedPath(input) ==
    Abs(Dir((IF input = <<>> THEN <<".">> ELSE input) \o <<Sep>>))

addFolderToWatch_NoDuplicateCheck(config, file, input) ==
    IF Len(config.FolderToWatch) = 0
    THEN [config |-> config, file |-> file, saved |-> FALSE]
    ELSE LET config2 == [config EXCEPT !.FolderToWatch =
                             Append(config.FolderToWatch, AddedPath(input))]
         IN  [config |-> config2, file |-> saveConfigJSONFile(config2, file),
              saved |-> TRUE]

addFolderToWatch_CompareFirstOnly(config, file, input) ==
    IF Len(config.FolderToWatch) = 0
    THEN [config |-> config, file |-> file, saved |-> FALSE]
    ELSE IF config.FolderToWatch[1] = AddedPath(input)
    THEN [config |-> config, file |-> file, saved |-> FALSE]
    ELSE LET config2 == [config EXCEPT !.FolderToWatch =
                             Append(config.FolderToWatch, AddedPath(input))]
         IN  [config |-> config2, file |-> saveConfigJSONFile(config2, file),
              saved |-> TRUE]

addFolderToWatch(config, file, input) ==
    IF Len(config.FolderToWatch) = 0
    THEN [config |-> config, file |-> file, saved |-> FALSE]
    ELSE LET folderToWatch == AddedPath(input)
             isFolderInConfig ==
                \E k \in 1..Len(config.FolderToWatch) :
                    config.FolderToWatch[k] = folderToWatch
         IN  IF isFolderInConfig
             THEN [config |-> config, file |-> file, saved |-> FALSE]
             ELSE LET config2 == [config EXCEPT !.FolderToWatch =
                                     Append(config.FolderToWatch, folderToWatch)]
                  IN  [config |-> config2,
                       file |-> saveConfigJSONFile(config2, file),
                       saved |-> TRUE]

\* option c
Configure ==
    /\ pc = "menu"
    /\ \E inName \in NameInputs, inPath \in PathInputs :
         LET c1 == createConfig(inName, configFile)
             c2 == configFolderToWatch(c1.config, c1.file, inPath)
         IN  /\ configApp' = c2.config
             /\ configFile' = c2.file
             /\ lastAct' = [op |-> "configure", saved |-> TRUE,
                            prompted |-> c2.prompted, before |-> configApp,
                            fileBefore |-> configFile, name |-> inName,
                            path |-> inPath, loadErr |-> lastAct.loadErr]
    /\ pc' = AfterOption
    /\ UNCHANGED <<interactive, now, driveVars, parentFolder, sweepVars,
                   watchVars, puVars, run>>

\* option a
AddFolder ==
    /\ pc = "menu"
    /\ \E inPath \in PathInputs :
         LET r == addFolderToWatch(configApp, configFile, inPath)
         IN  /\ configApp' = r.config
             /\ configFile' = r.file
             /\ lastAct' = [op |-> "add", saved |-> r.saved, prompted |-> FALSE,
                            before |-> configApp, fileBefore |-> configFile,
                            name |-> <<>>, path |-> AddedPath(inPath),
                            loadErr |-> lastAct.loadErr]
    /\ pc' = AfterOption
    /\ UNCHANGED <<interactive, now, driveVars, parentFolder, sweepVars,
                   watchVars, puVars, run>>

\* option s
ShowConfig ==
    /\ pc = "menu"
    /\ lastAct' = [op |-> "show", saved |-> FALSE, prompted |-> FALSE,
                   before |-> configApp, fileBefore |-> configFile,
                   name |-> <<>>, path |-> <<>>, loadErr |-> lastAct.loadErr]
    /\ pc' = AfterOption
    /\ UNCHANGED <<interactive, cfgVars, now, driveVars, parentFolder,
                   sweepVars, watchVars, puVars, run>>

\* option x
ExitOption ==
    /\ pc = "menu"
    /\ pc' = "exit"
    /\ lastAct' = [NoAct EXCEPT !.op = "exit", !.loadErr = lastAct.loadErr]
    /\ UNCHANGED <<interactive, cfgVars, now, driveVars, parentFolder,
                   sweepVars, watchVars, puVars, run>>

\* any other option
WrongOption ==
    /\ pc = "menu"
    /\ pc' = "abort"
    /\ lastAct' = [NoAct EXCEPT !.op = "wrong", !.loadErr = lastAct.loadErr]
    /\ UNCHANGED <<interactive, cfgVars, now, driveVars, parentFolder,
                   sweepVars, watchVars, puVars, run>>

(***************************************************************************)
(* Drive calls.  Each takes the outcome of the HTTP exchange (apiOk).      *)
(***************************************************************************)
\* the folders of the listing named folderName, by position
Matches(folderName, listing) ==
    {k \in 1..Len(listing) : listing[k].name = folderName}

findHolderFolder_FirstMatch(folderName, listing, apiOk) ==
    IF ~apiOk THEN [folder |-> <<>>, err |-> TRUE, listErr |-> TRUE]
    ELSE IF Matches(folderName, listing) = {}
    THEN [folder |-> <<>>, err |-> TRUE, listErr |-> FALSE]
    ELSE [folder |-> <<listing[SetMin(Matches(folderName, listing))]>>,
          err |-> FALSE, listErr |-> FALSE]

findHolderFolder(folderName, listing, apiOk) ==
    IF ~apiOk THEN [folder |-> <<>>, err |-> TRUE, listErr |-> TRUE]
    ELSE IF Len(listing) > 0
    THEN IF Matches(folderName, listing) = {}
         THEN [folder |-> <<>>, err |-> TRUE, listErr |-> FALSE]
         ELSE [folder |-> <<listing[SetMax(Matches(folderName, listing))]>>,
               err |-> FALSE, listErr |-> FALSE]
    ELSE [folder |-> <<>>, err |-> TRUE, listErr |-> FALSE]

\* the files the query of findUploadFileInDrive selects
FilesNamed(fileName, parentID, remote) ==
    SelectSeq(remote, LAMBDA f : f.parent = parentID /\ f.name = fileName)

findUploadFileInDrive_NeverFound(fileName, parentID, remote) == <<>>

findUploadFileInDrive(fileName, parentID, remote) ==
    IF Len(FilesNamed(fileName, parentID, remote)) > 0
    THEN <<FilesNamed(fileName, parentID, remote)[1]>>
    ELSE <<>>

\* Files.Create of uploadNewFileToDrive
uploadNewFileToDrive(folderFile, fileToUploadName, remote, id) ==
    Append(remote, [id |-> id, name |-> Base(fileToUploadName),
                    parent |-> folderFile.id])

\* Files.Update of updateFileInDrive
updateFileInDrive(driveFileToUpload, remote) ==
    [k \in 1..Len(remote) |->
        IF remote[k].id = driveFileToUpload.id
        THEN [remote[k] EXCEPT !.name = Base(driveFileToUpload.name)]
        ELSE remote[k]]

updateLastUpdateAppConfig_NoRefresh(config, file, n) ==
    [config |-> config, file |-> file]

updateLastUpdateAppConfig(config, file, n) ==
    LET config2 == [config EXCEPT !.LastUpdate = TimeString(n)]
    IN  [config |-> config2, file |-> saveConfigJSONFile(config2, file)]

(***************************************************************************)
(* executeApp: folder resolution.                                          *)
(***************************************************************************)
\* what executeApp does with findHolderFolder's answer
AfterFind_AlwaysCreate(r) == "mkdir"

AfterFind(r) == IF r.err THEN "mkdir" ELSE "config"

\* option e, up to the return of findHolderFolder
FindHolderFolder ==
    /\ pc = "menu"
    /\ \E apiOk \in BOOLEAN :
         LET r == findHolderFolder(configApp.FolderName, folders, apiOk)
         IN  /\ parentFolder' = r.folder
             /\ pc' = AfterFind(r)
             /\ run' = [list |-> IF apiOk THEN "ok" ELSE "err",
                        matches |-> Cardinality(
                                       Matches(configApp.FolderName, folders)),
                        mkdir |-> 0,
                        lastMatch |->
                           IF Matches(configApp.FolderName, folders) = {} THEN 0
                           ELSE folders[SetMax(Matches(configApp.FolderName,
                                                       folders))].id,
                        skipped |-> {}, errs |-> 0, addErr |-> FALSE]
    /\ lastAct' = [NoAct EXCEPT !.op = "execute"]
    /\ UNCHANGED <<interactive, cfgVars, now, driveVars, sweepVars, watchVars,
                   puVars>>

\* createFolderInDrive, and the panic when it fails
CreateFolderInDrive ==
    /\ pc = "mkdir"
    /\ run' = [run EXCEPT !.mkdir = @ + 1]
    /\ \E apiOk \in BOOLEAN :
         IF apiOk
         THEN /\ folders' = Append(folders,
                                   MkFolder(nextId, configApp.FolderName))
              /\ nextId' = nextId + 1
              /\ parentFolder' = <<MkFolder(nextId, configApp.FolderName)>>
              /\ pc' = "config"
         ELSE /\ pc' = "abort"
              /\ UNCHANGED <<folders, nextId, parentFolder>>
    /\ UNCHANGED <<interactive, cfgVars, now, files, sweepVars, watchVars,
                   puVars, lastAct>>

\* configFolderToWatch as called by executeApp
ExecConfigFolderToWatch ==
    /\ pc = "config"
    /\ \E inPath \in PathInputs :
         LET c == configFolderToWatch(configApp, configFile, inPath)
         IN  /\ configApp' = c.config
             /\ configFile' = c.file
    /\ pc' = "sweep"
    /\ si' = 1 /\ listed' = FALSE /\ entries' = <<>>
    /\ UNCHANGED <<interactive, now, driveVars, parentFolder, watchVars,
                   puVars, run, lastAct>>

(***************************************************************************)
(* processUpload, one step per blocking call.                              *)
(***************************************************************************)
\* the call of processUpload(uploadFilePath, uploadFileName, parentFolder)
StartUpload(uploadFilePath, uploadFileName, by) ==
    /\ rpc' = "open"
    /\ rc' = [path |-> uploadFilePath, name |-> uploadFileName, by |-> by,
              found |-> <<>>]
    /\ prev' = [path |-> pu.path, parent |-> pu.parent]
    /\ pu' = [NoPU EXCEPT
                !.path = uploadFilePath, !.name = uploadFileName, !.by = by,
                !.parent = parentFolder[1].id,
                !.existed = Len(FilesNamed(Base(uploadFilePath),
                                           parentFolder[1].id, files)) > 0,
                !.outcome = "running",
                !.cfgBefore = configApp, !.fileBefore = configFile]

\* log.Fatalf in processUpload: the process ends
Fatal_Return == pc

Fatal == "abort"

\* os.Open(uploadFilePath)
UploadOpen ==
    /\ rpc = "open" /\ pc \in {"sweep", "watch"}
    /\ \E ok \in BOOLEAN :
         IF ok
         THEN /\ rpc' = "query"
              /\ pu' = [pu EXCEPT !.opened = "ok"]
              /\ pc' = pc
         ELSE /\ pc' = Fatal
              /\ pu' = [pu EXCEPT !.opened = "err", !.outcome = "failed"]
              /\ rpc' = rpc
    /\ UNCHANGED <<interactive, cfgVars, now, driveVars, parentFolder,
                   sweepVars, watchVars, rc, prev, run, lastAct>>

\* findUploadFileInDrive(uploadFileName, parentFolder.Id)
UploadQuery ==
    /\ rpc = "query" /\ pc \in {"sweep", "watch"}
    /\ \E apiOk \in BOOLEAN :
         IF apiOk
         THEN /\ rpc' = "act"
              /\ rc' = [rc EXCEPT !.found =
                          findUploadFileInDrive(rc.name, parentFolder[1].id,
                                                files)]
              /\ pu' = [pu EXCEPT !.query = "ok"]
              /\ pc' = pc
         ELSE /\ pc' = Fatal
              /\ pu' = [pu EXCEPT !.query = "err", !.outcome = "failed"]
              /\ UNCHANGED <<rpc, rc>>
    /\ UNCHANGED <<interactive, cfgVars, now, driveVars, parentFolder,
                   sweepVars, watchVars, prev, run, lastAct>>

\* updateFileInDrive or uploadNewFileToDrive, then updateLastUpdateAppConfig
UploadAct ==
    /\ rpc = "act" /\ pc \in {"sweep", "watch"}
    /\ \E apiOk \in BOOLEAN :
         LET isUpdate == rc.found # <<>>
             counted == IF isUpdate
                        THEN [pu EXCEPT !.updates = @ + 1,
                                        !.target = rc.found[1].id]
                        ELSE [pu EXCEPT !.creates = @ + 1]
             saved == updateLastUpdateAppConfig(configApp, configFile, now)
         IN  IF apiOk
             THEN /\ files' = IF isUpdate
                              THEN updateFileInDrive(rc.found[1], files)
                              ELSE uploadNewFileToDrive(parentFolder[1], rc.name,
                                                        files, nextId)
                  /\ nextId' = IF isUpdate THEN nextId ELSE nextId + 1
                  /\ configApp' = saved.config
                  /\ configFile' = saved.file
                  /\ now' = now + 1
                  /\ pu' = [counted EXCEPT !.outcome = "ok"]
                  /\ rpc' = "idle"
                  /\ pc' = pc
             ELSE /\ pc' = "abort"
                  /\ pu' = [counted EXCEPT !.outcome = "failed"]
                  /\ UNCHANGED <<files, nextId, cfgVars, now, rpc>>
    /\ UNCHANGED <<interactive, folders, parentFolder, sweepVars, watchVars,
                   rc, prev, run, lastAct>>

(***************************************************************************)
(* uploadActualFilesInWatchDir.                                            *)
(***************************************************************************)
\* where the sweep goes when ioutil.ReadDir failed: it logs and goes on
AfterReadDirError_Fatal == "abort"

AfterReadDirError == "sweep"

\* ioutil.ReadDir of the watched path in hand; a failure skips the path
SweepReadDir ==
    /\ pc = "sweep" /\ rpc = "idle" /\ ~listed
    /\ si <= Len(configApp.FolderToWatch)
    /\ \E ok \in BOOLEAN :
         IF ok
         THEN /\ listed' = TRUE
              /\ entries' = DirEntries(configApp.FolderToWatch[si])
              /\ si' = si
              /\ UNCHANGED <<pc, run>>
         ELSE /\ si' = si + 1
              /\ pc' = AfterReadDirError
              /\ run' = [run EXCEPT !.skipped = @ \cup {si}]
              /\ UNCHANGED <<listed, entries>>
    /\ UNCHANGED <<interactive, cfgVars, now, driveVars, parentFolder,
                   watchVars, puVars, lastAct>>

\* whether the sweep uploads the entry actualFile of actualFolderToWatch
SweepUploads(actualFolderToWatch, actualFile) ==
    /\ ~actualFile.isDir
    /\ isNotAppFile(actualFolderToWatch \o <<"/">> \o actualFile.name)
    /\ ~isNotHiddenFile(actualFolderToWatch \o <<"/">> \o actualFile.name)

\* one turn of the loop over the entries
SweepEntry ==
    /\ pc = "sweep" /\ rpc = "idle" /\ listed /\ entries # <<>>
    /\ entries' = Tail(entries)
    /\ LET actualFolderToWatch == configApp.FolderToWatch[si]
           actualFile == Head(entries)
       IN  IF SweepUploads(actualFolderToWatch, actualFile)
           THEN StartUpload(actualFolderToWatch \o <<"/">> \o actualFile.name,
                            actualFile.name, "sweep")
           ELSE UNCHANGED puVars
    /\ UNCHANGED <<interactive, pc, cfgVars, now, driveVars, parentFolder,
                   si, listed, watchVars, run, lastAct>>

\* the entries of the path in hand are exhausted
SweepNextDir ==
    /\ pc = "sweep" /\ rpc = "idle" /\ listed /\ entries = <<>>
    /\ si' = si + 1 /\ listed' = FALSE
    /\ UNCHANGED <<interactive, pc, cfgVars, now, driveVars, parentFolder,
                   entries, watchVars, puVars, run, lastAct>>

(***************************************************************************)
(* runWatcher.                                                             *)
(***************************************************************************)
\* the range over configApp.FolderToWatch is exhausted: the sweep returns
SweepReturns_Early == TRUE

SweepReturns == si > Len(configApp.FolderToWatch)

\* fsnotify.NewWatcher() and the start of the goroutine
StartWatcher ==
    /\ pc = "sweep" /\ rpc = "idle" /\ ~listed
    /\ SweepReturns
    /\ \E ok \in BOOLEAN : pc' = IF ok THEN "watch" ELSE "abort"
    /\ registered' = 0 /\ events' = <<>> /\ errors' = 0 /\ delivered' = 0
    /\ received' = NoEvent
    /\ UNCHANGED <<interactive, cfgVars, now, driveVars, parentFolder,
                   sweepVars, puVars, run, lastAct>>

\* watcher.Add of the next watched path
RegisterWatch ==
    /\ pc = "watch"
    /\ registered < Len(configApp.FolderToWatch)
    /\ \E ok \in BOOLEAN :
         IF ok
         THEN registered' = registered + 1 /\ pc' = pc /\ run' = run
         ELSE /\ pc' = "abort" /\ registered' = registered
              /\ run' = [run EXCEPT !.addErr = TRUE]
    /\ UNCHANGED <<interactive, cfgVars, now, driveVars, parentFolder,
                   sweepVars, events, errors, delivered, received, puVars,
                   lastAct>>

\* the notifier reports an operation on a file of a registered directory
NotifyEvent ==
    /\ pc = "watch"
    /\ delivered < MaxEvents
    /\ \E k \in 1..registered, op \in EventOps :
         \E j \in 1..Len(DirEntries(configApp.FolderToWatch[k])) :
            LET e == DirEntries(configApp.FolderToWatch[k])[j]
            IN  /\ ~e.isDir
                /\ events' = Append(events,
                      [name |-> configApp.FolderToWatch[k] \o <<Sep>> \o e.name,
                       op |-> op])
    /\ delivered' = delivered + 1
    /\ UNCHANGED <<interactive, pc, cfgVars, now, driveVars, parentFolder,
                   sweepVars, registered, errors, received, puVars, run,
                   lastAct>>

\* the notifier reports an error
NotifyError ==
    /\ pc = "watch"
    /\ registered > 0
    /\ delivered < MaxEvents
    /\ errors' = errors + 1
    /\ delivered' = delivered + 1
    /\ UNCHANGED <<interactive, pc, cfgVars, now, driveVars, parentFolder,
                   sweepVars, registered, events, received, puVars, run,
                   lastAct>>

\* whether the goroutine uploads on event
WatchUploads_CreateOnly(event) ==
    /\ OpCreate \in event.op
    /\ isNotAppFile(event.name)
    /\ ~isNotHiddenFile(event.name)

WatchUploads(event) ==
    /\ OpWrite \in event.op
    /\ isNotAppFile(event.name)
    /\ ~isNotHiddenFile(event.name)

\* the goroutine is at its select: it is in no call of processUpload
AtSelect_Always == TRUE

AtSelect == rpc = "idle"

\* the name the goroutine cuts out of event.Name
OnlyFileName(eventName) ==
    SubSeq(eventName, LastIndex(eventName, <<Sep>>) + 2, Len(eventName))

\* case event := <-watcher.Events
ReceiveEvent ==
    /\ pc = "watch" /\ AtSelect /\ events # <<>>
    /\ events' = Tail(events)
    /\ received' = Head(events)
    /\ LET event == Head(events)
       IN  IF WatchUploads(event)
           THEN StartUpload(event.name, OnlyFileName(event.name), "watch")
           ELSE UNCHANGED puVars
    /\ UNCHANGED <<interactive, pc, cfgVars, now, driveVars, parentFolder,
                   sweepVars, registered, errors, delivered, run, lastAct>>

\* where the goroutine goes on a notifier error: it logs and loops
AfterWatcherError_Fatal == "abort"

AfterWatcherError == "watch"

\* case err := <-watcher.Errors
ReceiveError ==
    /\ pc = "watch" /\ AtSelect /\ errors > 0
    /\ errors' = errors - 1
    /\ pc' = AfterWatcherError
    /\ run' = [run EXCEPT !.errs = @ + 1]
    /\ UNCHANGED <<interactive, cfgVars, now, driveVars, parentFolder,
                   sweepVars, registered, events, delivered, received, puVars,
                   lastAct>>

Next ==
    \/ Configure \/ AddFolder \/ ShowConfig \/ ExitOption \/ WrongOption
    \/ FindHolderFolder \/ CreateFolderInDrive \/ ExecConfigFolderToWatch
    \/ SweepReadDir \/ SweepEntry \/ SweepNextDir
    \/ UploadOpen \/ UploadQuery \/ UploadAct
    \/ StartWatcher \/ RegisterWatch
    \/ NotifyEvent \/ NotifyError \/ ReceiveEvent \/ ReceiveError

Spec == Init /\ [][Next]_vars

(***************************************************************************)
(* LiveSpec: the goroutine of runWatcher keeps running.  Its select takes  *)
(* a ready channel, and the calls of processUpload return.                 *)
(***************************************************************************)
LiveSpec ==
    /\ Spec
    /\ WF_vars(ReceiveEvent) /\ WF_vars(ReceiveError)
    /\ WF_vars(UploadOpen) /\ WF_vars(UploadQuery) /\ WF_vars(UploadAct)

(***************************************************************************)
(* SpecSingle: the watch loop of the one-folder version (lines 755-811).   *)
(* Its appConfig.FolderToWatch is one string, held here as a one-element   *)
(* list; processUpload and the Drive calls read as in the first version.   *)
(***************************************************************************)
isNotAppFileSingle(fileName, folderToWatch) ==
    ~ \E k \in 1..Len(appFiles) :
        folderToWatch \o <<"/">> \o appFiles[k] = fileName

\* case event := <-watcher.Events, one-folder version
ReceiveEventSingle ==
    /\ pc = "watch" /\ rpc = "idle" /\ events # <<>>
    /\ events' = Tail(events)
    /\ received' = Head(events)
    /\ LET event == Head(events)
       IN  IF /\ OpWrite \in event.op
              /\ isNotAppFileSingle(event.name, configApp.FolderToWatch[1])
           THEN StartUpload(event.name, event.name, "watch")
           ELSE UNCHANGED puVars
    /\ UNCHANGED <<interactive, pc, cfgVars, now, driveVars, parentFolder,
                   sweepVars, registered, errors, delivered, run, lastAct>>

SingleConfig ==
    [FolderName |-> NameD, LastUpdate |-> <<>>, FolderToWatch |-> <<WatchW>>]

\* runWatcher of the one-folder version is entered
InitSingle ==
    /\ interactive \in BOOLEAN
    /\ pc = "watch"
    /\ configApp = SingleConfig
    /\ configFile = <<Marshal(SingleConfig)>>
    /\ now = 1
    /\ folders \in InitialFolders \ {<<>>}
    /\ files = <<>>
    /\ nextId = 3
    /\ parentFolder = <<folders[Len(folders)]>>
    /\ si = 1 /\ listed = FALSE /\ entries = <<>>
    /\ registered = 0 /\ events = <<>> /\ errors = 0 /\ delivered = 0
    /\ received = NoEvent
    /\ rpc = "idle" /\ rc = NoRC /\ pu = NoPU /\ prev = NoPrev
    /\ run = [list |-> "ok", matches |-> Len(folders), mkdir |-> 0,
              lastMatch |-> folders[Len(folders)].id, skipped |-> {},
              errs |-> 0, addErr |-> FALSE]
    /\ lastAct = [NoAct EXCEPT !.op = "execute"]

NextSingle ==
    \/ RegisterWatch \/ NotifyEvent \/ NotifyError
    \/ ReceiveEventSingle \/ ReceiveError
    \/ UploadOpen \/ UploadQuery \/ UploadAct

SpecSingle == InitSingle /\ [][NextSingle]_vars

(***************************************************************************)
(* SpecJson: a config is written by saveConfigJSONFile, the process ends,  *)
(* and the next one reads the file with loadConfig.                        *)
(***************************************************************************)
JsonAlphabet == {"a", "/", "\"", "\\", "<"}

StringsUpTo(n) == UNION {[1..k -> JsonAlphabet] : k \in 0..n}

JsonConfigs ==
    [FolderName : StringsUpTo(MaxStrLen),
     LastUpdate : {<<>>, TimeString(1)},
     FolderToWatch :
        {<<>>} \cup {<<p>> : p \in StringsUpTo(MaxStrLen)}
               \cup {<<p, q>> : p \in StringsUpTo(1), q \in StringsUpTo(1)}]

InitJson ==
    /\ interactive = FALSE
    /\ pc = "json"
    /\ configApp \in JsonConfigs
    /\ configFile = <<>>
    /\ now = 1
    /\ folders = <<>> /\ files = <<>> /\ nextId = 3 /\ parentFolder = <<>>
    /\ si = 1 /\ listed = FALSE /\ entries = <<>>
    /\ registered = 0 /\ events = <<>> /\ errors = 0 /\ delivered = 0
    /\ received = NoEvent
    /\ rpc = "idle" /\ rc = NoRC /\ pu = NoPU /\ prev = NoPrev
    /\ run = NoRun
    /\ lastAct = NoAct

jsonFrame == <<interactive, pc, now, driveVars, parentFolder, sweepVars,
               watchVars, puVars, run>>

\* saveConfigJSONFile()
JsonSave ==
    /\ pc = "json" /\ lastAct.op = "none"
    /\ configFile' = saveConfigJSONFile(configApp, configFile)
    /\ lastAct' = [NoAct EXCEPT !.op = "jsonsave", !.saved = TRUE,
                                !.before = configApp]
    /\ UNCHANGED <<configApp, jsonFrame>>

\* the process ends; the next one starts with a zero appConfig
JsonRestart ==
    /\ pc = "json" /\ lastAct.op = "jsonsave"
    /\ configApp' = ZeroConfig
    /\ lastAct' = [lastAct EXCEPT !.op = "jsonrestart"]
    /\ UNCHANGED <<configFile, jsonFrame>>

\* configApp, err = loadConfig()
JsonLoad ==
    /\ pc = "json" /\ lastAct.op = "jsonrestart"
    /\ configApp' = loadConfig(configFile).config
    /\ lastAct' = [lastAct EXCEPT !.op = "jsonload",
                                  !.loadErr = loadConfig(configFile).err]
    /\ UNCHANGED <<configFile, jsonFrame>>

NextJson == JsonSave \/ JsonRestart \/ JsonLoad

SpecJson == InitJson /\ [][NextJson]_vars

(***************************************************************************)
(* Vocabulary of the properties.                                           *)
(***************************************************************************)
HasSuffix(str, suffix) ==
    /\ Len(str) >= Len(suffix)
    /\ SubSeq(str, Len(str) - Len(suffix) + 1, Len(str)) = suffix

\* the path ends with one of the reserved names
EndsWithReservedName(path) ==
    \/ HasSuffix(path, configFileName)
    \/ HasSuffix(path, clientSecretFileName)
    \/ HasSuffix(path, sourceFileName)
    \/ HasSuffix(path, binaryFileName)

\* the path holds a separator followed by a dot
HasHiddenSegment(path) ==
    \E k \in 1..(Len(path) - 1) : path[k] = "/" /\ path[k + 1] = "."

\* a processUpload call has returned or ended the process
UploadEnded == pu.outcome \in {"ok", "failed"}

\* the remote files that are the logical file of the processUpload in hand
SameLogicalFile ==
    {k \in 1..Len(files) :
        files[k].parent = pu.parent /\ files[k].name = Base(pu.path)}

PathA == WatchW \o <<"/", "a">>

PathHidden == WatchW \o <<"/", ".", "h">>

\* the files of the watched directories
WatchedFilePaths ==
    {dir \o <<"/">> \o DirEntries(dir)[k].name :
        dir \in {WatchW}, k \in {j \in 1..Len(DirEntries(WatchW)) :
                                    ~DirEntries(WatchW)[j].isDir}}
    \cup
    {dir \o <<"/">> \o DirEntries(dir)[k].name :
        dir \in {WatchD}, k \in {j \in 1..Len(DirEntries(WatchD)) :
                                    ~DirEntries(WatchD)[j].isDir}}

\* those that pass the filters of the goroutine
FilteredIn ==
    {path \in WatchedFilePaths : isNotAppFile(path) /\ ~isNotHiddenFile(path)}

\* an event of operation op on path waits in watcher.Events
Pending(path, op) ==
    \E k \in 1..Len(events) : events[k].name = path /\ op \in events[k].op

PendingAny(path) == \E k \in 1..Len(events) : events[k].name = path

\* processUpload has just been called for path
Invoked(path) == rpc = "open" /\ rc.path = path /\ pc # "abort"

(***************************************************************************)
(* C1 (as stated).  Every processUpload whose local file opened issues     *)
(* exactly one create and no update when no remote file of that base name  *)
(* was under the folder, and exactly one update, of that file, and no      *)
(* create when there was one.                                              *)
(***************************************************************************)
C1_Original ==
    (UploadEnded /\ pu.opened = "ok") =>
        IF pu.existed
        THEN /\ pu.updates = 1 /\ pu.creates = 0
             /\ pu.target = files[SetMin(SameLogicalFile)].id
        ELSE pu.creates = 1 /\ pu.updates = 0

(***************************************************************************)
(* C1 (amended).  The same, for the calls whose existence query succeeded; *)
(* a call whose query failed issues neither, and no call issues more than  *)
(* one of the two.                                                         *)
(***************************************************************************)
C1_CreateOrUpdateOnce ==
    /\ (UploadEnded /\ pu.opened = "ok" /\ pu.query = "ok") =>
          IF pu.existed
          THEN /\ pu.updates = 1 /\ pu.creates = 0
               /\ pu.target = files[SetMin(SameLogicalFile)].id
          ELSE pu.creates = 1 /\ pu.updates = 0
    /\ pu.query # "ok" => (pu.creates = 0 /\ pu.updates = 0)
    /\ pu.creates + pu.updates <= 1

C1_Witness ==
    /\ pu.outcome = "ok" /\ pu.existed /\ pu.updates = 1 /\ pu.by = "watch"

(***************************************************************************)
(* C2.  When processUpload has succeeded twice in succession for the same  *)
(* local file and folder, the second call updated and did not create, and  *)
(* exactly one remote file of that name is under the folder.               *)
(***************************************************************************)
C2_Idempotent ==
    (pu.outcome = "ok" /\ prev.path = pu.path /\ prev.parent = pu.parent) =>
        /\ pu.updates = 1 /\ pu.creates = 0
        /\ Cardinality(SameLogicalFile) = 1

(***************************************************************************)
(* C3.  processUpload is never called, by the sweep or by the goroutine,   *)
(* for a path that ends with a reserved name or holds "/.".                *)
(***************************************************************************)
C3_FilterExclusion ==
    /\ pu.outcome # "none" =>
          (~EndsWithReservedName(pu.path) /\ ~HasHiddenSegment(pu.path))
    /\ rpc # "idle" =>
          (~EndsWithReservedName(rc.path) /\ ~HasHiddenSegment(rc.path))

C3_Witness ==
    /\ received.name = PathHidden /\ OpWrite \in received.op
    /\ rpc = "idle" /\ pu.path # PathHidden

(***************************************************************************)
(* C4.  When the listing succeeded without a folder of the destination     *)
(* name, folder resolution calls create-folder exactly once and goes on    *)
(* with the folder it returned; with a folder of that name in the listing  *)
(* it never calls create-folder.                                           *)
(***************************************************************************)
C4_FolderAutoCreation ==
    /\ (run.list = "ok" /\ run.matches = 0) =>
          /\ pc = "mkdir" => run.mkdir = 0
          /\ pc # "mkdir" => run.mkdir = 1
          /\ pc \in {"config", "sweep", "watch"} =>
                /\ parentFolder = <<folders[Len(folders)]>>
                /\ parentFolder[1].name = configApp.FolderName
    /\ (run.list = "ok" /\ run.matches >= 1) => run.mkdir = 0

C4_Witness ==
    /\ run.list = "ok" /\ run.matches = 0 /\ run.mkdir = 1 /\ pc = "sweep"

(***************************************************************************)
(* C5.  After an error of the folder listing, the run is aborted: no       *)
(* create-folder call, no sweep and no watch follow.                       *)
(***************************************************************************)
C5_ListErrorAborts ==
    run.list = "err" =>
        (run.mkdir = 0 /\ pc \notin {"mkdir", "config", "sweep", "watch"})

(***************************************************************************)
(* C6 (as stated).  An event, create or write, on a file that passes both  *)
(* filters leads to a call of processUpload for that file.                 *)
(***************************************************************************)
C6_Original ==
    \A path \in FilteredIn : PendingAny(path) ~> Invoked(path)

(***************************************************************************)
(* C6 (amended).  A write event on a file that passes both filters leads   *)
(* to a call of processUpload for that file, unless the process ends       *)
(* first on a fatal error.                                                 *)
(***************************************************************************)
C6_WriteEventReconciled ==
    \A path \in FilteredIn :
        Pending(path, OpWrite) ~> (Invoked(path) \/ pc = "abort")

C6_Witness ==
    /\ received.name = PathA /\ OpWrite \in received.op
    /\ pu.by = "watch" /\ pu.path = PathA /\ pu.outcome = "ok"

(***************************************************************************)
(* C7 (as stated).  The add command with a path already in the list leaves *)
(* the list and the file as they were and does not save; with a path not   *)
(* in the list it appends the path at the end and saves.                   *)
(***************************************************************************)
InList(path, list) == \E k \in 1..Len(list) : list[k] = path

C7_Original ==
    lastAct.op = "add" =>
        IF InList(lastAct.path, lastAct.before.FolderToWatch)
        THEN /\ configApp = lastAct.before
             /\ configFile = lastAct.fileBefore
             /\ ~lastAct.saved
        ELSE /\ configApp.FolderToWatch =
                    Append(lastAct.before.FolderToWatch, lastAct.path)
             /\ lastAct.saved
             /\ configFile = <<Marshal(configApp)>>

(***************************************************************************)
(* C7 (amended).  The same when the list is not empty; on an empty list    *)
(* the add command changes nothing and does not save.                      *)
(***************************************************************************)
C7_DuplicateRejected ==
    lastAct.op = "add" =>
        IF \/ InList(lastAct.path, lastAct.before.FolderToWatch)
           \/ lastAct.before.FolderToWatch = <<>>
        THEN /\ configApp = lastAct.before
             /\ configFile = lastAct.fileBefore
             /\ ~lastAct.saved
        ELSE /\ configApp.FolderToWatch =
                    Append(lastAct.before.FolderToWatch, lastAct.path)
             /\ lastAct.saved
             /\ configFile = <<Marshal(configApp)>>

C7_Witness ==
    /\ lastAct.op = "add"
    /\ InList(lastAct.path, lastAct.before.FolderToWatch)
    /\ Len(configApp.FolderToWatch) = 2

(***************************************************************************)
(* C8.  A config written by saveConfigJSONFile and read back by loadConfig *)
(* has the same folder name, the same timestamp and the same watched       *)
(* paths in the same order.                                                *)
(***************************************************************************)
C8_ConfigRoundTrip ==
    lastAct.op = "jsonload" =>
        /\ ~lastAct.loadErr
        /\ configApp.FolderName = lastAct.before.FolderName
        /\ configApp.LastUpdate = lastAct.before.LastUpdate
        /\ configApp.FolderToWatch = lastAct.before.FolderToWatch

C8_Witness ==
    /\ lastAct.op = "jsonload"
    /\ configApp.FolderName = <<"\"", "<">>
    /\ configApp.FolderToWatch = << <<"/">>, <<"\\">> >>

(***************************************************************************)
(* C9.  A processUpload that succeeded has set LastUpdate to the time of   *)
(* its success and saved; one that failed, or has not finished, has left   *)
(* the config and the file as they were at its call; and the file always   *)
(* holds the config in memory.                                             *)
(***************************************************************************)
C9_SyncTimeRecorded ==
    /\ pu.outcome = "ok" =>
          /\ configApp.LastUpdate = TimeString(now - 1)
          /\ configApp.LastUpdate # pu.cfgBefore.LastUpdate
          /\ configApp = [pu.cfgBefore EXCEPT !.LastUpdate = TimeString(now - 1)]
          /\ configFile # pu.fileBefore
    /\ pu.outcome \in {"running", "failed"} =>
          (configApp = pu.cfgBefore /\ configFile = pu.fileBefore)
    /\ loadConfig(configFile).config = configApp

C9_Witness ==
    /\ pu.outcome = "ok" /\ pu.updates = 1 /\ prev.path # <<>>
    /\ configApp.LastUpdate = TimeString(now - 1)
    /\ configApp.LastUpdate # pu.cfgBefore.LastUpdate

(***************************************************************************)
(* C10.  Started without a config file, loadConfig reports an error and    *)
(* the program goes to its menu with a zero config; configure then leaves  *)
(* a config whose folder name is not empty (the default when nothing was   *)
(* typed), has asked for a watch path, and holds exactly one watched path; *)
(* when "." was typed that path is the absolute Dir of ".", which is the   *)
(* current directory.                                                      *)
(***************************************************************************)
C10_FirstRun ==
    /\ (lastAct.op = "load" /\ configFile = <<>>) =>
          (lastAct.loadErr /\ configApp = ZeroConfig /\ pc = "menu")
    /\ (lastAct.op = "configure" /\ lastAct.loadErr) =>
          /\ configApp.FolderName # <<>>
          /\ lastAct.name = <<>> => configApp.FolderName = DefaultFolderName
          /\ lastAct.name # <<>> => configApp.FolderName = lastAct.name
          /\ lastAct.prompted
          /\ Len(configApp.FolderToWatch) = 1
          /\ lastAct.path = <<".">> => configApp.FolderToWatch = <<Cwd>>
          /\ IsAbs(configApp.FolderToWatch[1])

C10_Witness ==
    /\ lastAct.op = "configure" /\ lastAct.loadErr
    /\ lastAct.name = <<>> /\ lastAct.path = <<".">>
    /\ configApp.FolderToWatch = <<Cwd>>

(***************************************************************************)
(* C11.  At most one processUpload is in progress at any time.  Every call *)
(* of the sweep has returned before runWatcher starts, and nothing of the  *)
(* watcher exists during the sweep; the goroutine calls processUpload only *)
(* when its previous call has returned; the steps of a call follow one     *)
(* another in the order open, query, create-or-update, on the arguments of *)
(* that call; and the config changes only in a step of the one task that   *)
(* is active: a menu command, configFolderToWatch of executeApp, or the    *)
(* last step of the processUpload in progress.                             *)
(***************************************************************************)
\* this step calls processUpload
Called ==
    /\ pu'.outcome = "running"
    /\ \/ pu.outcome # "running"
       \/ Len(events') < Len(events)
       \/ Len(entries') < Len(entries)

RpcOrder ==
    { <<"idle", "open">>, <<"open", "query">>, <<"query", "act">>,
      <<"act", "idle">> }

C11_OneReconcileAtATime ==
    /\ [](/\ pc \in {"menu", "mkdir", "config", "exit"} => rpc = "idle"
          /\ pc = "sweep" =>
                /\ rpc # "idle" => rc.by = "sweep"
                /\ events = <<>> /\ registered = 0 /\ received = NoEvent
          /\ pc = "watch" => (rpc # "idle" => rc.by = "watch")
          /\ rpc # "idle" => (pu.outcome # "ok" /\ pu.path = rc.path))
    /\ [][/\ Called => (rpc = "idle" /\ pu.outcome # "running")
          /\ rpc' # rpc => <<rpc, rpc'>> \in RpcOrder
          /\ (rpc # "idle" /\ rpc' # "idle") =>
                (rc'.path = rc.path /\ rc'.name = rc.name /\ rc'.by = rc.by)
          /\ <<configApp, configFile>>' # <<configApp, configFile>> =>
                \/ pc \in {"menu", "config"} /\ rpc = "idle"
                \/ /\ pc \in {"sweep", "watch"} /\ rpc = "act"
                   /\ pu.outcome = "running" /\ pu'.outcome = "ok"
                   /\ pu'.path = pu.path]_vars

C11_Witness ==
    /\ pc = "watch" /\ rpc = "query" /\ rc.by = "watch"
    /\ events # <<>> /\ prev.path # <<>>

(***************************************************************************)
(* C12.  processUpload fails fast, in the order open, query,               *)
(* create-or-update.  When the open failed the process has ended and no    *)
(* query, create or update was issued; when the query failed the process   *)
(* has ended and no create or update was issued; when the create or update *)
(* failed the process has ended; a query is issued only after the open     *)
(* succeeded and a create or update only after the query succeeded; and    *)
(* once a step has failed nothing happens any more: no step is retried and *)
(* no further event is received.                                           *)
(***************************************************************************)
C12_FailFast ==
    /\ [](/\ pu.opened = "err" =>
                /\ pc = "abort" /\ pu.outcome = "failed"
                /\ pu.query = "no" /\ pu.creates = 0 /\ pu.updates = 0
          /\ pu.query = "err" =>
                /\ pc = "abort" /\ pu.outcome = "failed"
                /\ pu.opened = "ok" /\ pu.creates = 0 /\ pu.updates = 0
          /\ pu.outcome = "failed" => pc = "abort"
          /\ pu.query # "no" => pu.opened = "ok"
          /\ pu.creates + pu.updates > 0 => pu.query = "ok"
          /\ pu.creates + pu.updates <= 1)
    /\ [][pu.outcome = "failed" => vars' = vars]_vars

C12_Witness ==
    /\ pu.opened = "ok" /\ pu.query = "err" /\ pc = "abort"
    /\ pu.by = "watch" /\ events # <<>>

(***************************************************************************)
(* C13.  An execute goes through folder resolution, then the sweep, then   *)
(* the watch, and never back.  The sweep is entered once, from             *)
(* configFolderToWatch and with a destination folder in hand; it takes the *)
(* watched paths one after the other from the first; the watch is entered  *)
(* once, from the sweep, when every watched path has been taken; the       *)
(* folder does not change from then on, bears the configured name, and is  *)
(* the parent given to every processUpload and of every file created.      *)
(***************************************************************************)
C13_ExecuteOrder ==
    /\ [](/\ pc \in {"config", "sweep", "watch"} =>
                /\ parentFolder # <<>>
                /\ parentFolder[1].name = configApp.FolderName
                /\ \E k \in 1..Len(folders) : folders[k] = parentFolder[1]
          /\ pc \in {"menu", "mkdir", "config"} =>
                (pu.outcome = "none" /\ registered = 0 /\ files = <<>>)
          /\ pc = "watch" =>
                /\ si = Len(configApp.FolderToWatch) + 1
                /\ ~listed /\ entries = <<>>
          /\ pu.outcome # "none" =>
                /\ pu.parent = parentFolder[1].id
                /\ prev.path # <<>> => prev.parent = pu.parent
                /\ \A k \in 1..Len(files) : files[k].parent = pu.parent)
    /\ [][/\ (pc' = "mkdir" /\ pc # "mkdir") => pc = "menu"
          /\ (pc' = "config" /\ pc # "config") => pc \in {"menu", "mkdir"}
          /\ (pc' = "sweep" /\ pc # "sweep") => (pc = "config" /\ si' = 1)
          /\ (pc' = "watch" /\ pc # "watch") => pc = "sweep"
          /\ pc = "config" => pc' \in {"config", "sweep"}
          /\ pc = "sweep" => pc' \in {"sweep", "watch", "abort"}
          /\ pc = "watch" => pc' \in {"watch", "abort"}
          /\ pc \in {"config", "sweep", "watch"} => parentFolder' = parentFolder
          /\ (pc = "sweep" /\ si' # si) => si' = si + 1]_vars

C13_Witness ==
    /\ pc = "watch" /\ Len(configApp.FolderToWatch) = 2 /\ registered = 2
    /\ run.mkdir = 1
    /\ pu.by = "watch" /\ pu.outcome = "ok" /\ prev.path # <<>>

(***************************************************************************)
(* C14.  isNotAppFile is exact and the sweep follows it: when the sweep    *)
(* has just passed an entry of a watched directory that is not a           *)
(* directory, isNotAppFile of its path is false exactly when the path ends *)
(* with a reserved name, and processUpload has been called for the path    *)
(* exactly when the path ends with no reserved name and holds no "/.".     *)
(***************************************************************************)
\* the sweep has consumed an entry of the directory in hand
SweptOne ==
    /\ pc = "sweep" /\ listed /\ si <= Len(configApp.FolderToWatch)
    /\ Len(entries) < Len(DirEntries(configApp.FolderToWatch[si]))

\* the entry the sweep consumed last, and its path
LastSwept ==
    DirEntries(configApp.FolderToWatch[si])
        [Len(DirEntries(configApp.FolderToWatch[si])) - Len(entries)]

LastSweptPath == configApp.FolderToWatch[si] \o <<"/">> \o LastSwept.name

C14_FilterExact ==
    (SweptOne /\ ~LastSwept.isDir) =>
        /\ isNotAppFile(LastSweptPath) = ~EndsWithReservedName(LastSweptPath)
        /\ (~EndsWithReservedName(LastSweptPath)
               /\ ~HasHiddenSegment(LastSweptPath))
           <=> (pu.outcome # "none" /\ pu.by = "sweep"
                   /\ pu.path = LastSweptPath)

(***************************************************************************)
(* C15.  A failure of ReadDir on a watched path does not end the sweep:    *)
(* the step that fails leaves the program in the sweep, moves to the next  *)
(* watched path and changes nothing else; and as long as the process has   *)
(* not ended on a fatal error, every watched path the sweep has gone past  *)
(* was either skipped on such a failure or listed, and every file of a     *)
(* listed one that passes the filters of the sweep has been uploaded under *)
(* the destination folder, whether the path comes before or after a        *)
(* skipped one.                                                            *)
(***************************************************************************)
\* the watched paths the sweep has gone past
SweptPaths ==
    {k \in 1..Len(configApp.FolderToWatch) : k < si}

\* the entries of the watched path k that the sweep uploads
UploadedEntries(k) ==
    {j \in 1..Len(DirEntries(configApp.FolderToWatch[k])) :
        SweepUploads(configApp.FolderToWatch[k],
                     DirEntries(configApp.FolderToWatch[k])[j])}

OnDrive(name) ==
    \E f \in 1..Len(files) :
        files[f].name = name /\ files[f].parent = parentFolder[1].id

C15_ListingFailureSkipped ==
    /\ [](/\ run.skipped \subseteq SweptPaths
          /\ pc \in {"sweep", "watch"} =>
                \A k \in SweptPaths \ run.skipped :
                    \A j \in UploadedEntries(k) :
                        OnDrive(DirEntries(configApp.FolderToWatch[k])[j].name)
          /\ pc = "watch" =>
                SweptPaths = 1..Len(configApp.FolderToWatch))
    /\ [][run'.skipped # run.skipped =>
             /\ run.skipped # {} => run'.skipped = run.skipped \cup {si}
             /\ pc = "sweep" /\ pc' = "sweep" /\ si' = si + 1
             /\ UNCHANGED <<cfgVars, driveVars, parentFolder, puVars,
                            listed, entries>>]_vars

C15_Witness ==
    /\ pc = "watch" /\ Len(configApp.FolderToWatch) = 2
    /\ run.skipped = {1}
    /\ OnDrive(<<"b">>) /\ ~OnDrive(<<"a">>)

(***************************************************************************)
(* C16.  The goroutine survives the errors of the notifier: the step that  *)
(* takes an error off watcher.Errors leaves the program in the watch loop  *)
(* and changes nothing of the config, the Drive or the events waiting; and *)
(* a write event on a file that passes both filters, waiting after an      *)
(* error has been taken, leads to a call of processUpload for that file,   *)
(* unless the process ends first on a fatal error.  A watcher.Add that     *)
(* fails ends the process: nothing happens after it.                       *)
(***************************************************************************)
C16_WatcherErrorNotFatal ==
    /\ [][run'.errs # run.errs =>
             /\ pc = "watch" /\ pc' = "watch" /\ run'.errs = run.errs + 1
             /\ UNCHANGED <<cfgVars, driveVars, parentFolder, registered,
                            events, puVars>>]_vars
    /\ \A path \in FilteredIn :
          (run.errs > 0 /\ Pending(path, OpWrite))
              ~> (Invoked(path) \/ pc = "abort")
    /\ [](run.addErr =>
            (pc = "abort" /\ registered < Len(configApp.FolderToWatch)))
    /\ [][run.addErr => vars' = vars]_vars

C16_Witness ==
    /\ pc = "watch" /\ run.errs = 1 /\ errors = 0 /\ delivered = 2
    /\ rpc = "open" /\ rc.by = "watch" /\ rc.path = PathA

(***************************************************************************)
(* C17.  When the listing of folders succeeded and holds more than one     *)
(* folder of the destination name, folder resolution creates no folder and *)
(* reports no error, and the folder the run goes on with is the one of     *)
(* that name that comes last in the listing; every processUpload of the    *)
(* run is given that folder and every file on the Drive is under it.       *)
(***************************************************************************)
\* folder bears the destination name and no later folder of the listing does
LastOfName(folder) ==
    \E k \in 1..Len(folders) :
        /\ folders[k] = folder
        /\ folder.name = configApp.FolderName
        /\ \A j \in (k + 1)..Len(folders) :
              folders[j].name # configApp.FolderName

C17_LastFolderWins ==
    (run.list = "ok" /\ run.matches > 1) =>
        /\ run.mkdir = 0 /\ pc # "mkdir"
        /\ Len(folders) = run.matches
        /\ parentFolder # <<>> /\ LastOfName(parentFolder[1])
        /\ pu.outcome # "none" => pu.parent = parentFolder[1].id
        /\ \A k \in 1..Len(files) : files[k].parent = parentFolder[1].id

C17_Witness ==
    /\ run.list = "ok" /\ run.matches = 2 /\ pc = "watch"
    /\ pu.outcome = "ok" /\ Len(files) > 0
    /\ parentFolder[1] = folders[2]

(***************************************************************************)
(* C18.  Whatever configure and add commands have been given, from a start *)
(* without config file as from a start with one, the list of watched paths *)
(* holds no path twice, in memory and in config.json; and an add command   *)
(* given while the list is empty leaves the config and config.json as they *)
(* were and saves nothing.                                                 *)
(***************************************************************************)
NoDuplicates(list) ==
    \A i, j \in 1..Len(list) : list[i] = list[j] => i = j

C18_NoDuplicatePaths ==
    /\ NoDuplicates(configApp.FolderToWatch)
    /\ configFile # <<>> =>
          NoDuplicates(loadConfig(configFile).config.FolderToWatch)
    /\ (lastAct.op = "add" /\ lastAct.before.FolderToWatch = <<>>) =>
          /\ configApp = lastAct.before
          /\ configFile = lastAct.fileBefore
          /\ ~lastAct.saved

C18_Witness ==
    /\ lastAct.loadErr /\ lastAct.op = "add" /\ ~lastAct.saved
    /\ configApp.FolderToWatch = <<WatchD, WatchW>>

=============================================================================
